---------------------------- MODULE Spec2Model ----------------------------
(***************************************************************************)
(* Input/output guardrail engine of nemo-server/main.py: the ordered text  *)
(* rewrite pipeline (normalize_text), the blocked-pattern scan, the image  *)
(* size estimate and the two validators validate_input / validate_output.  *)
(*                                                                         *)
(* A Python str is a sequence of one-character strings.  An Optional[...]  *)
(* value is a sequence of length at most one: << >> is None, <<v>> is v.   *)
(***************************************************************************)
EXTENDS Integers, Sequences, FiniteSets, TLC

VARIABLES
  tables,   \* the module-level rule tables (INPUT_RAILS, OUTPUT_RAILS, UNIT_MAPPINGS, TYPO_MAPPINGS)
  req,      \* req[c]: the request client c has in flight (None when it has none)
  resp,     \* resp[c]: the response returned to client c for req[c] (None until the handler ran)
  text,     \* the argument of normalize_text (specification SpecNormalize)
  once,     \* normalize_text(text), None until computed
  twice     \* normalize_text(normalize_text(text)), None until computed

vars == <<tables, req, resp, text, once, twice>>

None == << >>

Some(v) == <<v>>

-----------------------------------------------------------------------------
(* Bounds of the model *)

\* number of pieces a text given to normalize_text is concatenated from
MaxParts == 2

\* number of pieces a text of a validate/input request is concatenated from
MaxInputParts == 2

\* half-width of the window of text lengths explored around max_length
LenWindow == 2

\* half-width of the window of image byte counts explored around max_size_bytes
ImgWindow == 2

\* largest number of steps in a validate/output request
MaxSteps == 2

-----------------------------------------------------------------------------
(* Rule tables, main.py lines 54-117 *)

UNIT_MAPPINGS ==
  << << <<"ko_reok", "ko_seu">>, <<"l", "x">> >>,
     << <<"ko_ru", "ko_men">>, <<"l", "m">> >>,
     << <<"ko_kan", "ko_del", "ko_ra">>, <<"c", "d">> >>,
     << <<"ko_kil", "ko_ro", "ko_wa", "ko_teu">>, <<"k", "W">> >>,
     << <<"ko_wa", "ko_teu">>, <<"W">> >>,
     << <<"ko_bol", "ko_teu">>, <<"V">> >>,
     << <<"ko_am", "ko_pe", "ko_eo">>, <<"A">> >>,
     << <<"ko_om">>, <<"sym_Omega">> >>,
     << <<"ko_je", "ko_gop", "ko_mi", "ko_teo">>, <<"m", "sym_sup2">> >>,
     << <<"ko_pyeong", "ko_bang", "ko_mi", "ko_teo">>, <<"m", "sym_sup2">> >>,
     << <<"ko_ki", "ko_ro", "ko_ba">>, <<"k", "V", "A">> >>,
     << <<"ko_ke", "ko_i", "ko_beu", "ko_i", "ko_e", "ko_i">>, <<"k", "V", "A">> >>,
     << <<"ko_ki", "ko_ro", "ko_ba", "ko_reu">>, <<"k", "V", "a", "r">> >>,
     << <<"ko_ke", "ko_i", "ko_ba", "ko_reu">>, <<"k", "V", "a", "r">> >>,
     << <<"ko_peo", "ko_sen", "ko_teu">>, <<"%">> >>,
     << <<"ko_peu", "ko_ro">>, <<"%">> >> >>

TYPO_MAPPINGS ==
  << << <<"ko_yeok", "ko_yul">>, <<"ko_yeok", "ko_ryul">> >>,
     << <<"ko_jo", "ko_myeong", "ko_yul">>, <<"ko_jo", "ko_myeong", "ko_ryul">> >>,
     << <<"ko_in", "ko_pi", "ko_deon", "ko_seu">>, <<"ko_im", "ko_pi", "ko_deon", "ko_seu">> >>,
     << <<"ko_ko", "ko_sa", "ko_in">>, <<"c", "o", "s", "sym_theta">> >>,
     << <<"ko_ko", "ko_ssa", "ko_in">>, <<"c", "o", "s", "sym_theta">> >>,
     << <<"ko_tan", "ko_jen", "ko_teu">>, <<"t", "a", "n", "sym_theta">> >>,
     << <<"ko_pa", "ko_i">>, <<"sym_pi">> >>,
     << <<"ko_ru", "ko_teu">>, <<"sym_sqrt">> >> >>

\* each blocked pattern is a regular expression w1|w2|...: the sequence of its alternatives
INPUT_RAILS ==
  [ allowed_topics |->
      { <<"ko_jeon", "ko_gi", "ko_seol", "ko_bi">>, <<"ko_jeon", "ko_gi", "ko_gong", "ko_sa">>, <<"ko_jeon", "ko_ryeok", "ko_gye", "ko_tong">>,
        <<"ko_si", "ko_kwon", "ko_seu">>, <<"P", "L", "C">>, <<"ko_jo", "ko_myeong">>, <<"ko_yeok", "ko_ryul">>,
        <<"ko_byeon", "ko_ap", "ko_gi">>, <<"ko_jeop", "ko_ji">>, <<"K", "E", "C">>, <<"ko_jeon", "ko_gi", "ko_gi", "ko_sa">>,
        <<"ko_su", "ko_byeon", "ko_jeon">>, <<"ko_bae", "ko_seon">>, <<"ko_dan", "ko_rak">>, <<"ko_gwa", "ko_jeon", "ko_ryu">>,
        <<"ko_nu", "ko_jeon">>, <<"ko_kon", "ko_den", "ko_seo">>, <<"ko_im", "ko_pi", "ko_deon", "ko_seu">>,
        <<"ko_jeon", "ko_ap", "ko_gang", "ko_ha">>, <<"ko_gwang", "ko_sok", "ko_beop">>, <<"ko_chuk", "ko_jeon", "ko_ji">>,
        <<"ko_tae", "ko_yang", "ko_gwang">>, <<"ko_cha", "ko_dan", "ko_gi">>, <<"ko_bo", "ko_ho", "ko_gye", "ko_jeon", "ko_gi">>,
        <<"ko_dan", "ko_seon", "ko_do">>, <<"ko_gyeol", "ko_seon", "ko_do">>, <<"ko_je", "ko_eo", "ko_hoe", "ko_ro">> },
    blocked_patterns |->
      << << <<"ko_yok", "ko_seol">>, <<"ko_bi", "ko_sok", "ko_eo">>, <<"ko_gong", "ko_gyeok", "ko_jeok">> >>,
         << <<"ko_gae", "ko_in", "ko_jeong", "ko_bo">>, <<"ko_ju", "ko_min", "ko_deung", "ko_rok">>,
            <<"ko_jeon", "ko_hwa", "ko_beon", "ko_ho">>, <<"ko_ju", "ko_so">> >>,
         << <<"ko_hae", "ko_king">>, <<"ko_keu", "ko_rae", "ko_king">>, <<"ko_bul", "ko_beop">> >>,
         << <<"ko_seong", "ko_jeok">>, <<"ko_eum", "ko_ran">>, <<"1", "9", "ko_geum">> >> >>,
    min_length |-> 3,
    max_length |-> 2000,
    max_size_bytes |-> 10 * 1024 * 1024 ]

\* min_confidence 0.7 and the confidence of a request are counted in hundredths
OUTPUT_RAILS ==
  [ min_confidence |-> 70,
    required_fields |-> <<"answer", "steps", "formulas">>,
    si_units |->
      << <<"V">>, <<"A">>, <<"W">>, <<"sym_Omega">>, <<"F">>, <<"H">>, <<"l", "x">>, <<"l", "m">>,
         <<"c", "d">>, <<"m">>, <<"m", "m", "sym_sup2">>, <<"k", "V", "A">>,
         <<"k", "V", "a", "r">>, <<"k", "W">>, <<"%">> >> ]

\* the rule tables as the module defines them at import
RuleSet ==
  [ INPUT_RAILS   |-> INPUT_RAILS,
    OUTPUT_RAILS  |-> OUTPUT_RAILS,
    UNIT_MAPPINGS |-> UNIT_MAPPINGS,
    TYPO_MAPPINGS |-> TYPO_MAPPINGS ]

-----------------------------------------------------------------------------
(* Characters and the regular-expression primitives the code uses *)

\* \s of a Python str pattern, and the characters str.strip() removes
Whitespace == {" ", "\t", "\n"}

\* \d
Digits == {"0", "1", "2", "3", "4", "5", "6", "7", "8", "9"}

\* re.IGNORECASE: both sides of a comparison are lower-cased
LowerOf ==
  [c \in {"A", "B", "C", "D", "E", "F", "G", "H", "I", "J", "K", "L", "M",
          "N", "O", "P", "Q", "R", "S", "T", "U", "V", "W", "X", "Y", "Z"} |->
     CASE c = "A" -> "a" [] c = "B" -> "b" [] c = "C" -> "c" [] c = "D" -> "d"
       [] c = "E" -> "e" [] c = "F" -> "f" [] c = "G" -> "g" [] c = "H" -> "h"
       [] c = "I" -> "i" [] c = "J" -> "j" [] c = "K" -> "k" [] c = "L" -> "l"
       [] c = "M" -> "m" [] c = "N" -> "n" [] c = "O" -> "o" [] c = "P" -> "p"
       [] c = "Q" -> "q" [] c = "R" -> "r" [] c = "S" -> "s" [] c = "T" -> "t"
       [] c = "U" -> "u" [] c = "V" -> "v" [] c = "W" -> "w" [] c = "X" -> "x"
       [] c = "Y" -> "y" [] c = "Z" -> "z"]

Lower(c) == IF c \in DOMAIN LowerOf THEN LowerOf[c] ELSE c

\* Op(x) with x evaluated before Op is entered, as Python evaluates an
\* argument before the call
Call(Op(_), x) == CHOOSE out \in {Op(v) : v \in {x}} : TRUE

Min(S) == CHOOSE i \in S : \A j \in S : i <= j

\* the literal `pattern` matches s at position i
MatchAt(pattern, s, i) ==
  /\ i >= 1
  /\ i + Len(pattern) - 1 <= Len(s)
  /\ \A k \in 1..Len(pattern) : s[i + k - 1] = pattern[k]

\* the positions >= from at which the literal pattern matches s
Matches(pattern, s, from) ==
  {i \in from..(Len(s) - Len(pattern) + 1) : MatchAt(pattern, s, i)}

\* re.search(pattern, s, re.IGNORECASE) for a literal pattern
re_search(pattern, s) ==
  \E i \in 1..(Len(s) - Len(pattern) + 1) :
    \A k \in 1..Len(pattern) : Lower(s[i + k - 1]) = Lower(pattern[k])

\* re.sub(pattern, repl, s) for a literal pattern, scanning from position
\* `from`: every leftmost non-overlapping match is replaced
RECURSIVE re_sub_from(_, _, _, _)
re_sub_from(pattern, repl, s, from) ==
  LET M == Matches(pattern, s, from) IN
  IF M = {}
    THEN SubSeq(s, from, Len(s))
    ELSE LET i == Min(M) IN
         SubSeq(s, from, i - 1) \o repl \o re_sub_from(pattern, repl, s, i + Len(pattern))

re_sub(pattern, repl, s) == re_sub_from(pattern, repl, s, 1)

\* the first position >= j of s that holds no whitespace (Len(s) + 1 if none): \s* is greedy
SkipSpace(s, j) ==
  CHOOSE k \in j..(Len(s) + 1) :
    /\ k = Len(s) + 1 \/ s[k] \notin Whitespace
    /\ \A m \in j..(k - 1) : s[m] \in Whitespace

\* word\s*=?\s*(\d) with re.IGNORECASE matched at position i of s: the position
\* of the captured digit, 0 when there is no match at i
ShorthandDigit(word, s, i) ==
  IF /\ i + Len(word) - 1 <= Len(s)
     /\ \A k \in 1..Len(word) : Lower(s[i + k - 1]) = word[k]
    THEN LET a == SkipSpace(s, i + Len(word))
             b == IF a <= Len(s) /\ s[a] = "=" THEN a + 1 ELSE a
             d == SkipSpace(s, b)
         IN IF d <= Len(s) /\ s[d] \in Digits THEN d ELSE 0
    ELSE 0

\* re.sub(word\s*=?\s*(\d), prefix \1, s, flags=re.IGNORECASE) from position `from`
RECURSIVE re_sub_shorthand_from(_, _, _, _)
re_sub_shorthand_from(word, prefix, s, from) ==
  LET M == {i \in from..Len(s) : ShorthandDigit(word, s, i) # 0} IN
  IF M = {}
    THEN SubSeq(s, from, Len(s))
    ELSE LET i == Min(M)
             d == ShorthandDigit(word, s, i)
         IN SubSeq(s, from, i - 1) \o prefix \o <<s[d]>>
              \o re_sub_shorthand_from(word, prefix, s, d + 1)

re_sub_shorthand(word, prefix, s) == re_sub_shorthand_from(word, prefix, s, 1)

\* str.strip()
strip(s) ==
  LET lo == SkipSpace(s, 1) IN
  IF lo > Len(s)
    THEN << >>
    ELSE LET t == CHOOSE k \in 0..(Len(s) - 1) :
                    /\ s[Len(s) - k] \notin Whitespace
                    /\ \A m \in 0..(k - 1) : s[Len(s) - m] \in Whitespace
         IN SubSeq(s, lo, Len(s) - t)

\* re.sub(r"\s+", " ", s): every maximal run of whitespace becomes one space
collapse_whitespace(s) ==
  LET marked == [i \in 1..Len(s) |->
                   [c    |-> IF s[i] \in Whitespace THEN " " ELSE s[i],
                    keep |-> ~(s[i] \in Whitespace /\ i > 1 /\ s[i - 1] \in Whitespace)]]
      Keep(m) == m.keep
      kept == SelectSeq(marked, Keep)
  IN [i \in 1..Len(kept) |-> kept[i].c]

\* for pattern, replacement in mappings: s = re.sub(pattern, replacement, s),
\* entries k..Len(mappings) in declaration order
RECURSIVE apply_mappings(_, _, _)
apply_mappings(mappings, k, s) ==
  IF k > Len(mappings)
    THEN s
    ELSE LET rest(v) == apply_mappings(mappings, k + 1, v)
         IN Call(rest, re_sub(mappings[k][1], mappings[k][2], s))

-----------------------------------------------------------------------------
(* The messages of the two handlers, named by what the Korean text says *)

ERR_TOO_SHORT == "the question is too short"

ERR_TOO_LONG == "the question is too long, 2000 characters at most"

ERR_BLOCKED == "inappropriate content is included"

ERR_IMAGE_TOO_LARGE == "the image is larger than 10MB"

ERR_NO_INPUT == "enter the problem text or an image"

WARN_FIELD_MISSING == "the field is missing"

WARN_UNIT_MISSING == "the answer seems to lack a unit"

WARN_STEP_INCOMPLETE == "title or content of the step is missing"

WARN_LOW_CONFIDENCE == "confidence is below the threshold"

-----------------------------------------------------------------------------
(* Helper functions, main.py lines 172-213 *)

\* normalize_text with the replacement of the pf shorthand mistyped as the
\* word the typo table corrects
normalize_text_mistyped(t, T) ==
  LET units(v)       == apply_mappings(T.UNIT_MAPPINGS, 1, v)
      typos(v)       == apply_mappings(T.TYPO_MAPPINGS, 1, v)
      pf(v)          == re_sub_shorthand(<<"p", "f">>, <<"ko_yeok", "ko_yul", " ">>, v)
      cos(v)         == re_sub_shorthand(<<"c", "o", "s">>,
                                         <<"c", "o", "s", "sym_theta", " ", "=", " ">>, v)
      whitespace(v)  == strip(collapse_whitespace(v))
  IN Call(whitespace, Call(cos, Call(pf, Call(typos, Call(units, strip(t))))))

normalize_text(t, T) ==
  LET units(v)       == apply_mappings(T.UNIT_MAPPINGS, 1, v)
      typos(v)       == apply_mappings(T.TYPO_MAPPINGS, 1, v)
      pf(v)          == re_sub_shorthand(<<"p", "f">>, <<"ko_yeok", "ko_ryul", " ">>, v)
      cos(v)         == re_sub_shorthand(<<"c", "o", "s">>,
                                         <<"c", "o", "s", "sym_theta", " ", "=", " ">>, v)
      whitespace(v)  == strip(collapse_whitespace(v))
  IN Call(whitespace, Call(cos, Call(pf, Call(typos, Call(units, strip(t))))))

\* check_blocked_patterns with `return None` inside the loop: only the first
\* pattern is tried
check_blocked_patterns_first_only(t, T) ==
  IF \E j \in 1..Len(T.INPUT_RAILS.blocked_patterns[1]) :
       re_search(T.INPUT_RAILS.blocked_patterns[1][j], t)
    THEN Some(ERR_BLOCKED)
    ELSE None

check_blocked_patterns(t, T) ==
  IF \E k \in 1..Len(T.INPUT_RAILS.blocked_patterns) :
       \E j \in 1..Len(T.INPUT_RAILS.blocked_patterns[k]) :
         re_search(T.INPUT_RAILS.blocked_patterns[k][j], t)
    THEN Some(ERR_BLOCKED)
    ELSE None

\* any(topic in text for topic in topics); the handler only logs it
check_relevance(t, T) ==
  \E topic \in T.INPUT_RAILS.allowed_topics : Matches(topic, t, 1) # {}

\* int((len(base64_str) * 3) / 4); the string is modelled by its length
estimate_base64_size(base64_len) == (base64_len * 3) \div 4

-----------------------------------------------------------------------------
(* POST /validate/input, main.py lines 233-291 *)

\* bool(x) of an Optional[str] or Optional[list]: None and the empty value are falsy
Truthy(x) == x # None /\ Len(x[1]) > 0

\* bool(request.image_base64): the payload is modelled by its length
HasImage(request) == request.image_base64 # None /\ request.image_base64[1] > 0

\* length_errors with the lower limit off by one
length_errors_off_by_one(normalized, T) ==
  (IF Len(normalized) < T.INPUT_RAILS.min_length - 1 THEN <<ERR_TOO_SHORT>> ELSE << >>) \o
  (IF Len(normalized) > T.INPUT_RAILS.max_length THEN <<ERR_TOO_LONG>> ELSE << >>)

\* the two length checks on the normalized text
length_errors(normalized, T) ==
  (IF Len(normalized) < T.INPUT_RAILS.min_length THEN <<ERR_TOO_SHORT>> ELSE << >>) \o
  (IF Len(normalized) > T.INPUT_RAILS.max_length THEN <<ERR_TOO_LONG>> ELSE << >>)

\* errors appended inside `if request.text:`; normalized_text is None when the
\* block is skipped
text_errors(normalized_text, T) ==
  IF normalized_text = None
    THEN << >>
    ELSE length_errors(normalized_text[1], T) \o check_blocked_patterns(normalized_text[1], T)

\* errors appended inside `if request.image_base64:`
image_errors(request, T) ==
  IF HasImage(request) /\
     estimate_base64_size(request.image_base64[1]) > T.INPUT_RAILS.max_size_bytes
    THEN <<ERR_IMAGE_TOO_LARGE>>
    ELSE << >>

\* presence_errors testing `is None` instead of truthiness
presence_errors_is_none(request) ==
  IF request.text = None /\ request.image_base64 = None THEN <<ERR_NO_INPUT>> ELSE << >>

\* `if not request.text and not request.image_base64:`
presence_errors(request) ==
  IF ~Truthy(request.text) /\ ~HasImage(request) THEN <<ERR_NO_INPUT>> ELSE << >>

\* input_errors of a handler that returns at the first failing group of checks
input_errors_fail_fast(request, normalized_text, T) ==
  IF text_errors(normalized_text, T) # << >>
    THEN text_errors(normalized_text, T)
    ELSE IF image_errors(request, T) # << >>
           THEN image_errors(request, T)
           ELSE presence_errors(request)

\* the errors list as the handler has built it when it returns
input_errors(request, normalized_text, T) ==
  text_errors(normalized_text, T) \o image_errors(request, T) \o presence_errors(request)

validate_input(request, T) ==
  LET response(normalized_text) ==
        LET errors == input_errors(request, normalized_text, T) IN
        [valid |-> Len(errors) = 0, errors |-> errors, normalized_text |-> normalized_text]
  IN Call(response, IF Truthy(request.text)
                      THEN Some(normalize_text(request.text[1], T))
                      ELSE None)

-----------------------------------------------------------------------------
(* POST /validate/output, main.py lines 294-356 *)

\* a warning: its message and the field or step position the message cites
Warning(msg, field, step) == [msg |-> msg, field |-> field, step |-> step]

\* `for field in required_fields: if not getattr(request, field, None): ...`,
\* fields k..Len(required_fields)
RECURSIVE required_field_warnings(_, _, _)
required_field_warnings(request, required_fields, k) ==
  IF k > Len(required_fields)
    THEN << >>
    ELSE (IF ~Truthy(request[required_fields[k]])
            THEN <<Warning(WARN_FIELD_MISSING, required_fields[k], 0)>>
            ELSE << >>)
         \o required_field_warnings(request, required_fields, k + 1)

\* any(unit in request.answer for unit in si_units)
has_unit(answer, T) ==
  \E k \in 1..Len(T.OUTPUT_RAILS.si_units) : Matches(T.OUTPUT_RAILS.si_units[k], answer, 1) # {}

\* bool(re.search(r"\d", request.answer))
has_number(answer) == \E i \in 1..Len(answer) : answer[i] \in Digits

answer_warnings(request, T) ==
  IF Truthy(request.answer) /\ has_number(request.answer[1]) /\ ~has_unit(request.answer[1], T)
    THEN <<Warning(WARN_UNIT_MISSING, "", 0)>>
    ELSE << >>

\* `not step.get("title") or not step.get("content")`
step_incomplete(step) == ~Truthy(step.title) \/ ~Truthy(step.content)

\* `for i, step in enumerate(request.steps)`, steps i+1..Len(steps)
RECURSIVE step_warnings(_, _)
step_warnings(steps, i) ==
  IF i >= Len(steps)
    THEN << >>
    ELSE (IF step_incomplete(steps[i + 1])
            THEN <<Warning(WARN_STEP_INCOMPLETE, "", i + 1)>>
            ELSE << >>)
         \o step_warnings(steps, i + 1)

steps_warnings(request) ==
  IF Truthy(request.steps) THEN step_warnings(request.steps[1], 0) ELSE << >>

\* confidence_warnings with <= for <
confidence_warnings_inclusive(request, T) ==
  IF request.confidence # None /\ request.confidence[1] <= T.OUTPUT_RAILS.min_confidence
    THEN <<Warning(WARN_LOW_CONFIDENCE, "", 0)>>
    ELSE << >>

confidence_warnings(request, T) ==
  IF request.confidence # None /\ request.confidence[1] < T.OUTPUT_RAILS.min_confidence
    THEN <<Warning(WARN_LOW_CONFIDENCE, "", 0)>>
    ELSE << >>

output_warnings(request, T) ==
  required_field_warnings(request, T.OUTPUT_RAILS.required_fields, 1)
    \o answer_warnings(request, T)
    \o steps_warnings(request)
    \o confidence_warnings(request, T)

\* output_corrections of a handler that files low confidence as a correction
output_corrections_low_confidence(request, T) ==
  IF request.confidence # None /\ request.confidence[1] < T.OUTPUT_RAILS.min_confidence
    THEN <<WARN_LOW_CONFIDENCE>>
    ELSE << >>

\* nothing appends to corrections
output_corrections(request, T) == << >>

validate_output(request, T) ==
  LET warnings    == output_warnings(request, T)
      corrections == output_corrections(request, T)
  IN [valid |-> Len(corrections) = 0, warnings |-> warnings, corrections |-> corrections]

-----------------------------------------------------------------------------
(* Requests *)

Clients == {1, 2}

\* the concatenations of at most n pieces of P
RECURSIVE TextsOf(_, _)
TextsOf(P, n) ==
  IF n = 0
    THEN {<< >>}
    ELSE LET shorter == TextsOf(P, n - 1) IN
         shorter \cup {t \o p : t \in shorter, p \in P}

\* the source words of both rewrite tables
SourceWords ==
  {UNIT_MAPPINGS[k][1] : k \in 1..Len(UNIT_MAPPINGS)} \cup
  {TYPO_MAPPINGS[k][1] : k \in 1..Len(TYPO_MAPPINGS)}

\* the words of the blocked patterns
BlockedWords ==
  UNION { {INPUT_RAILS.blocked_patterns[k][j] : j \in 1..Len(INPUT_RAILS.blocked_patterns[k])} :
          k \in 1..Len(INPUT_RAILS.blocked_patterns) }

\* the source words and the fragments that put a shorthand, whitespace or a
\* partial source word next to them
NormPieces ==
  SourceWords \cup
  { <<"p", "f">>, <<"P", "F">>, <<"c", "o", "s">>, <<"C", "o", "s">>, <<"=">>, <<" ">>,
    <<"\t">>, <<"5">>, <<"ko_ga">>, <<"ko_reu">>, <<"ko_kil", "ko_ro">>, <<"sym_theta">> }

NormTexts == TextsOf(NormPieces, MaxParts)

\* n characters no rule matches
Fill(n) == [i \in 1..n |-> "ko_ga"]

\* the blocked words and fragments around them: a rewrite source that
\* shrinks the text and one that grows it, a shorthand, digits and whitespace
InputPieces ==
  BlockedWords \cup
  { <<"p", "f">>, <<"1">>, <<"9", "ko_geum">>, <<"5">>, <<" ">>, <<"a">>,
    <<"ko_kil", "ko_ro", "ko_wa", "ko_teu">>, <<"ko_ko", "ko_sa", "ko_in">> }

\* texts around max_length characters: bare, wrapped in whitespace, with a
\* blocked word, with a source word that shrinks and a shorthand that grows
LongTexts ==
  { affix[1] \o Fill(n) \o affix[2] :
      n \in (INPUT_RAILS.max_length - LenWindow)..(INPUT_RAILS.max_length + LenWindow),
      affix \in { << << >>, << >> >>,
                  << <<" ">>, <<"\t", " ">> >>,
                  << << >>, <<"ko_hae", "ko_king">> >>,
                  << <<"ko_bol", "ko_teu">>, << >> >>,
                  << << >>, <<"p", "f", "5">> >> } }

ShortTexts == TextsOf(InputPieces, MaxInputParts)

\* len(base64.b64encode(data)) for n bytes of data, with or without the '=' padding
b64encode_len(n, padded) ==
  IF padded THEN 4 * ((n + 2) \div 3) ELSE (4 * n + 2) \div 3

\* byte counts of the images: none, tiny, and around max_size_bytes
ImageSizes ==
  {0, 1, 2, 3} \cup
  (INPUT_RAILS.max_size_bytes - ImgWindow)..(INPUT_RAILS.max_size_bytes + ImgWindow)

AllImages == {None} \cup {Some(b64encode_len(n, padded)) : n \in ImageSizes, padded \in BOOLEAN}

OversizedImage == Some(b64encode_len(INPUT_RAILS.max_size_bytes + 3, TRUE))

CoarseImages == {None, Some(b64encode_len(3, TRUE)), OversizedImage}

CoarseTexts ==
  { None, Some(<< >>), Some(<<" ">>), Some(<<"a", "b">>), Some(<<"a", "b", "c">>),
    Some(<<"ko_hae", "ko_king">>) }

InputValidationRequest(t, image) ==
  [endpoint |-> "validate/input", text |-> t, image_base64 |-> image]

\* every short text with an image absent, small and oversized; every text
\* around max_length without image and with the oversized one; every image
\* with the text absent, empty, blank, short, long enough and blocked
InputRequests ==
  {InputValidationRequest(Some(x), image) : x \in ShortTexts, image \in CoarseImages} \cup
  {InputValidationRequest(Some(x), image) : x \in LongTexts, image \in {None, OversizedImage}} \cup
  {InputValidationRequest(t, image) : t \in CoarseTexts, image \in AllImages}

\* a step is a dict; a key it lacks reads as None
StepValues == {None, Some(<< >>), Some(<<"x">>)}

Steps == [title : StepValues, content : StepValues]

\* the lists of at most n steps
RECURSIVE StepLists(_)
StepLists(n) ==
  IF n = 0
    THEN {<< >>}
    ELSE LET shorter == StepLists(n - 1) IN
         shorter \cup {Append(l, st) : l \in shorter, st \in Steps}

OutputValidationRequest(answer, steps, formulas, confidence, related_kec) ==
  [endpoint |-> "validate/output", answer |-> answer, steps |-> steps,
   formulas |-> formulas, confidence |-> confidence, related_kec |-> related_kec]

Answers ==
  { None, Some(<< >>), Some(<<"2", "5", "0">>), Some(<<"2", "5", "0", "V">>),
    Some(<<"2", "5", " ", "k", "V", "a", "r">>), Some(<<"x">>) }

Formulas == {None, Some(<< >>), Some(<< <<"P", "=", "V", "I">> >>)}

\* absent, and around min_confidence
Confidences ==
  { None, Some(OUTPUT_RAILS.min_confidence - 1), Some(OUTPUT_RAILS.min_confidence),
    Some(OUTPUT_RAILS.min_confidence + 1) }

RelatedKEC == {None, Some(<< <<"2", "3", "2">> >>)}

CompleteStep == [title |-> Some(<<"x">>), content |-> Some(<<"x">>)]

\* every list of steps with the other fields all fine, all absent and all
\* warned about; every combination of the other fields with the steps absent,
\* empty, complete and incomplete
OutputRequests ==
  { OutputValidationRequest(rest[1], Some(l), rest[2], rest[3], rest[4]) :
      l \in StepLists(MaxSteps),
      rest \in { <<Some(<<"2", "5", "0", "V">>), Some(<< <<"P", "=", "V", "I">> >>),
                   Some(OUTPUT_RAILS.min_confidence), None>>,
                 <<None, None, None, None>>,
                 <<Some(<<"2", "5", "0">>), None, Some(OUTPUT_RAILS.min_confidence - 1),
                   Some(<< <<"2", "3", "2">> >>)>>,
                 <<Some(<<"2", "5", "0">>), Some(<< >>), Some(OUTPUT_RAILS.min_confidence - 1),
                   None>> } } \cup
  { OutputValidationRequest(answer, steps, formulas, confidence, related_kec) :
      answer \in Answers,
      steps \in { None, Some(<< >>), Some(<<CompleteStep>>),
                  Some(<<CompleteStep, [title |-> None, content |-> Some(<<"x">>)]>>) },
      formulas \in Formulas,
      confidence \in Confidences,
      related_kec \in RelatedKEC }

\* the requests of the concurrent specification
ServedInputRequests ==
  {InputValidationRequest(t, image) :
     t \in { None, Some(<<"a">>), Some(<<"1", "0", "0", "ko_bol", "ko_teu">>),
             Some(<<"ko_hae", "ko_king">>) },
     image \in {None, OversizedImage}}

ServedOutputRequests ==
  {OutputValidationRequest(answer, None, None, confidence, None) :
     answer \in {None, Some(<<"2", "5", "0">>)},
     confidence \in {None, Some(OUTPUT_RAILS.min_confidence - 1)}}

-----------------------------------------------------------------------------
(* The server: a client sends a request, the handler computes the response *)
(* from the request and the rule tables, the client takes the response     *)

Idle == [c \in Clients |-> None]

Init ==
  /\ tables = RuleSet
  /\ req = Idle
  /\ resp = Idle
  /\ text = << >>
  /\ once = None
  /\ twice = None

\* client c posts one of `requests` to POST /validate/input
PostInput(c, requests) ==
  /\ req[c] = None
  /\ \E r \in requests : req' = [req EXCEPT ![c] = Some(r)]
  /\ UNCHANGED <<tables, resp, text, once, twice>>

\* client c posts one of `requests` to POST /validate/output
PostOutput(c, requests) ==
  /\ req[c] = None
  /\ \E r \in requests : req' = [req EXCEPT ![c] = Some(r)]
  /\ UNCHANGED <<tables, resp, text, once, twice>>

\* ValidateInput of a handler that pops the first blocked pattern off the
\* shared list while it scans
ValidateInput_pop(c) ==
  /\ req[c] # None
  /\ resp[c] = None
  /\ req[c][1].endpoint = "validate/input"
  /\ resp' = [resp EXCEPT ![c] = Some(validate_input(req[c][1], tables))]
  /\ tables' = [tables EXCEPT !.INPUT_RAILS.blocked_patterns = Tail(@)]
  /\ UNCHANGED <<req, text, once, twice>>

\* the handler of POST /validate/input runs for the request of client c
ValidateInput(c) ==
  /\ req[c] # None
  /\ resp[c] = None
  /\ req[c][1].endpoint = "validate/input"
  /\ resp' = [resp EXCEPT ![c] = Some(validate_input(req[c][1], tables))]
  /\ UNCHANGED <<tables, req, text, once, twice>>

\* the handler of POST /validate/output runs for the request of client c
ValidateOutput(c) ==
  /\ req[c] # None
  /\ resp[c] = None
  /\ req[c][1].endpoint = "validate/output"
  /\ resp' = [resp EXCEPT ![c] = Some(validate_output(req[c][1], tables))]
  /\ UNCHANGED <<tables, req, text, once, twice>>

\* client c takes its response; it may post again
Return(c) ==
  /\ resp[c] # None
  /\ req' = [req EXCEPT ![c] = None]
  /\ resp' = [resp EXCEPT ![c] = None]
  /\ UNCHANGED <<tables, text, once, twice>>

\* any number of clients, both endpoints, any interleaving
Next ==
  \E c \in Clients :
    \/ PostInput(c, ServedInputRequests)
    \/ PostOutput(c, ServedOutputRequests)
    \/ ValidateInput(c)
    \/ ValidateOutput(c)
    \/ Return(c)

Spec == Init /\ [][Next]_vars

\* POST /validate/input alone, over the whole request set
NextInput ==
  \/ PostInput(1, InputRequests)
  \/ ValidateInput(1)
  \/ Return(1)

SpecInput == Init /\ [][NextInput]_vars

\* POST /validate/output alone, over the whole request set
NextOutput ==
  \/ PostOutput(1, OutputRequests)
  \/ ValidateOutput(1)
  \/ Return(1)

SpecOutput == Init /\ [][NextOutput]_vars

-----------------------------------------------------------------------------
(* SpecNormalize: normalize_text applied once and twice to a text *)

InitNormalize ==
  /\ tables = RuleSet
  /\ req = Idle
  /\ resp = Idle
  /\ text \in NormTexts
  /\ once = None
  /\ twice = None

NormalizeOnce ==
  /\ once = None
  /\ once' = Some(normalize_text(text, tables))
  /\ UNCHANGED <<tables, req, resp, text, twice>>

NormalizeTwice ==
  /\ once # None
  /\ twice = None
  /\ twice' = Some(normalize_text(once[1], tables))
  /\ UNCHANGED <<tables, req, resp, text, once>>

NextNormalize == NormalizeOnce \/ NormalizeTwice

SpecNormalize == InitNormalize /\ [][NextNormalize]_vars

-----------------------------------------------------------------------------
(* Properties *)

Has(seq, x) == \E i \in 1..Len(seq) : seq[i] = x

Count(seq, x) == Cardinality({i \in 1..Len(seq) : seq[i] = x})

\* s holds w as a substring
Contains(s, w) ==
  \E i \in 1..(Len(s) - Len(w) + 1) : \A k \in 1..Len(w) : s[i + k - 1] = w[k]

\* the clients whose validate/input (validate/output) request has been answered
InputCalls ==
  {c \in Clients : req[c] # None /\ resp[c] # None /\ req[c][1].endpoint = "validate/input"}

OutputCalls ==
  {c \in Clients : req[c] # None /\ resp[c] # None /\ req[c][1].endpoint = "validate/output"}

Normalized(r) == normalize_text(r.text[1], RuleSet)

\* C1 as claimed: every request whose text, the empty string included, is
\* shorter than min_length after normalization is answered valid=false with
\* the too-short error
C1_TooShortAnyText ==
  \A c \in InputCalls :
    LET r == req[c][1] IN
    (r.text # None /\ Len(Normalized(r)) < INPUT_RAILS.min_length)
      => (~resp[c][1].valid /\ Has(resp[c][1].errors, ERR_TOO_SHORT))

\* C1 amended: every request whose text is not empty (whitespace-only text
\* included, with or without an image) and is shorter than min_length after
\* normalization is answered valid=false with the too-short error
C1_TooShortNonEmptyText ==
  \A c \in InputCalls :
    LET r == req[c][1] IN
    (r.text # None /\ r.text[1] # << >> /\ Len(Normalized(r)) < INPUT_RAILS.min_length)
      => (~resp[c][1].valid /\ Has(resp[c][1].errors, ERR_TOO_SHORT))

\* a text of min_length characters or more that normalization shortens below
\* min_length, sent with an image, has been rejected as too short
C1_Witness ==
  \E c \in InputCalls :
    LET r == req[c][1] IN
    /\ r.text # None
    /\ Len(r.text[1]) >= INPUT_RAILS.min_length
    /\ Len(Normalized(r)) < INPUT_RAILS.min_length
    /\ HasImage(r)
    /\ ~resp[c][1].valid
    /\ Has(resp[c][1].errors, ERR_TOO_SHORT)

\* C2: an image that is the base64 encoding of n bytes, padded or not, gets
\* the oversized-image error iff n > max_size_bytes
C2_OversizeIffBytesExceed ==
  \A c \in InputCalls :
    \A n \in ImageSizes, padded \in BOOLEAN :
      req[c][1].image_base64 = Some(b64encode_len(n, padded))
        => (Has(resp[c][1].errors, ERR_IMAGE_TOO_LARGE) <=> n > INPUT_RAILS.max_size_bytes)

\* no source word of the rewrite tables and no pf/cos shorthand occurs in s,
\* and the whitespace rule leaves s as it is
NoRuleApplies(s) ==
  /\ \A w \in SourceWords : ~Contains(s, w)
  /\ \A i \in 1..Len(s) :
       /\ ShorthandDigit(<<"p", "f">>, s, i) = 0
       /\ ShorthandDigit(<<"c", "o", "s">>, s, i) = 0
  /\ \A i \in 1..Len(s) : s[i] \in Whitespace =>
       /\ s[i] = " "
       /\ 1 < i /\ i < Len(s)
       /\ s[i + 1] \notin Whitespace

\* C3: normalize_text is idempotent, and no rule applies to the text a
\* complete pass has produced
C3_Idempotent ==
  /\ once # None => NoRuleApplies(once[1])
  /\ twice # None => twice = once

\* a text with a source word of each table has been normalized twice, and
\* the first pass changed it
C3_Witness ==
  /\ twice # None
  /\ once[1] # text
  /\ \E k \in 1..Len(UNIT_MAPPINGS) : Contains(text, UNIT_MAPPINGS[k][1])
  /\ \E k \in 1..Len(TYPO_MAPPINGS) : Contains(text, TYPO_MAPPINGS[k][1])

\* C4: a request whose text holds a match of a blocked pattern is answered
\* valid=false with the inappropriate-content message exactly once, whatever
\* else is wrong with it; the scan of the normalized text misses no match of
\* the raw text
C4_BlockedRejectedOnce ==
  \A c \in InputCalls :
    LET r == req[c][1] IN
    (r.text # None /\ \E w \in BlockedWords : Contains(r.text[1], w))
      => (~resp[c][1].valid /\ Count(resp[c][1].errors, ERR_BLOCKED) = 1)

\* a text with a blocked word, which normalization rewrites, sent with an
\* oversized image, was rejected with the message once among other errors
C4_Witness ==
  \E c \in InputCalls :
    LET r == req[c][1] IN
    /\ r.text # None
    /\ \E w \in BlockedWords : Contains(r.text[1], w)
    /\ resp[c][1].normalized_text # r.text
    /\ Count(resp[c][1].errors, ERR_BLOCKED) = 1
    /\ Has(resp[c][1].errors, ERR_IMAGE_TOO_LARGE)

\* the position of an error in the order of the checks
ErrorRank(e) ==
  CASE e = ERR_TOO_SHORT -> 1
    [] e = ERR_TOO_LONG -> 2
    [] e = ERR_BLOCKED -> 3
    [] e = ERR_IMAGE_TOO_LARGE -> 4
    [] OTHER -> 5

\* the errors of response out are, in the order of the checks and each at most
\* once, exactly the four errors whose condition holds of request r
ExactlyTheFourChecks(r, out) ==
  LET n == Normalized(r) IN
  /\ \A i \in 1..Len(out.errors) : ErrorRank(out.errors[i]) <= 4
  /\ \A i, j \in 1..Len(out.errors) :
       i < j => ErrorRank(out.errors[i]) < ErrorRank(out.errors[j])
  /\ Has(out.errors, ERR_TOO_SHORT) <=> Len(n) < INPUT_RAILS.min_length
  /\ Has(out.errors, ERR_TOO_LONG) <=> Len(n) > INPUT_RAILS.max_length
  /\ Has(out.errors, ERR_BLOCKED) <=> \E w \in BlockedWords : Contains(n, w)
  /\ Has(out.errors, ERR_IMAGE_TOO_LARGE) <=>
       /\ r.image_base64 # None
       /\ (r.image_base64[1] * 3) \div 4 > INPUT_RAILS.max_size_bytes
  /\ out.valid <=> out.errors = << >>

\* C5 as claimed: for every request with text the errors list is exactly the
\* too-short, too-long, inappropriate-content and oversized-image errors
\* whose condition holds, in this order, and valid iff the list is empty
C5_AllChecksAnyText ==
  \A c \in InputCalls :
    req[c][1].text # None => ExactlyTheFourChecks(req[c][1], resp[c][1])

\* C5 amended: the same for every request whose text is not the empty string
C5_AllChecksNonEmptyText ==
  \A c \in InputCalls :
    (req[c][1].text # None /\ req[c][1].text[1] # << >>)
      => ExactlyTheFourChecks(req[c][1], resp[c][1])

\* a request failing three checks at once got the three errors
C5_Witness ==
  \E c \in InputCalls :
    /\ req[c][1].text # None
    /\ resp[c][1].errors = <<ERR_TOO_LONG, ERR_BLOCKED, ERR_IMAGE_TOO_LARGE>>
    /\ ~resp[c][1].valid

\* C6: a request that supplies neither text nor image (each absent or empty)
\* is answered valid=false with the must-supply error and no normalizedText
C6_NoInputRejected ==
  \A c \in InputCalls :
    LET r == req[c][1] IN
    (~Truthy(r.text) /\ ~HasImage(r))
      => /\ ~resp[c][1].valid
         /\ Has(resp[c][1].errors, ERR_NO_INPUT)
         /\ resp[c][1].normalized_text = None

\* the request without text and image, and the one with both empty, were rejected
C6_Witness ==
  \E c \in InputCalls :
    /\ req[c][1].text \in {None, Some(<< >>)}
    /\ req[c][1].image_base64 \in {None, Some(0)}
    /\ resp[c][1].errors = <<ERR_NO_INPUT>>
    /\ ~resp[c][1].valid

\* C7: every validate/output response has valid=true and no corrections,
\* whatever the warnings
C7_OutputAlwaysValid ==
  \A c \in OutputCalls : resp[c][1].valid /\ resp[c][1].corrections = << >>

\* a response with four warnings, the low-confidence one among them, is valid
C7_Witness ==
  \E c \in OutputCalls :
    /\ Len(resp[c][1].warnings) >= 4
    /\ Has(resp[c][1].warnings, Warning(WARN_LOW_CONFIDENCE, "", 0))
    /\ resp[c][1].valid

\* the verdict of request r handled alone, with the rule tables as the module
\* defines them
Verdict(r) ==
  IF r.endpoint = "validate/input" THEN validate_input(r, RuleSet) ELSE validate_output(r, RuleSet)

\* C8: no call modifies the rule tables, and every response, whatever ran
\* before it or runs beside it, is the verdict its request gets alone
C8_Deterministic ==
  /\ tables = RuleSet
  /\ \A c \in Clients : resp[c] # None => resp[c][1] = Verdict(req[c][1])

\* two clients hold answers to the same request, an invalid one
C8_Witness ==
  /\ resp[1] # None
  /\ resp[2] # None
  /\ req[1] = req[2]
  /\ req[1][1].endpoint = "validate/input"
  /\ ~resp[1][1].valid

\* the position of a warning in the order of the checks
WarningRank(w) ==
  CASE w.msg = WARN_FIELD_MISSING ->
         (IF w.field = "answer" THEN 1 ELSE IF w.field = "steps" THEN 2 ELSE 3)
    [] w.msg = WARN_UNIT_MISSING -> 4
    [] w.msg = WARN_STEP_INCOMPLETE -> 4 + w.step
    [] OTHER -> 5 + MaxSteps + 1

\* the value of a request field is absent or empty
Missing(x) == x = None \/ x[1] = << >>

\* the warnings of response out are, in the order of the checks, exactly the
\* warnings whose condition holds of request r
ExactlyTheWarnings(r, out) ==
  LET W == out.warnings
      nsteps == IF r.steps = None THEN 0 ELSE Len(r.steps[1])
  IN
  /\ \A i \in 1..Len(W) :
       \/ W[i] \in {Warning(WARN_FIELD_MISSING, f, 0) : f \in {"answer", "steps", "formulas"}}
       \/ W[i] = Warning(WARN_UNIT_MISSING, "", 0)
       \/ W[i] \in {Warning(WARN_STEP_INCOMPLETE, "", k) : k \in 1..nsteps}
       \/ W[i] = Warning(WARN_LOW_CONFIDENCE, "", 0)
  /\ \A i, j \in 1..Len(W) : i < j => WarningRank(W[i]) < WarningRank(W[j])
  /\ \A f \in {"answer", "steps", "formulas"} :
       Has(W, Warning(WARN_FIELD_MISSING, f, 0)) <=> Missing(r[f])
  /\ Has(W, Warning(WARN_UNIT_MISSING, "", 0)) <=>
       /\ ~Missing(r.answer)
       /\ \E i \in 1..Len(r.answer[1]) : r.answer[1][i] \in Digits
       /\ \A k \in 1..Len(OUTPUT_RAILS.si_units) : ~Contains(r.answer[1], OUTPUT_RAILS.si_units[k])
  /\ \A k \in 1..nsteps :
       Has(W, Warning(WARN_STEP_INCOMPLETE, "", k)) <=>
         (Missing(r.steps[1][k].title) \/ Missing(r.steps[1][k].content))
  /\ Has(W, Warning(WARN_LOW_CONFIDENCE, "", 0)) <=>
       (r.confidence # None /\ r.confidence[1] < OUTPUT_RAILS.min_confidence)

\* C9: the warnings list of every validate/output response is exactly, in
\* order, the missing-field warnings (answer, steps, formulas), the
\* missing-unit warning, the per-step warnings by ascending 1-based position
\* and the low-confidence warning, each iff its condition holds
C9_AllWarnings ==
  \A c \in OutputCalls : ExactlyTheWarnings(req[c][1], resp[c][1])

\* a request with a missing field, a unit-less number, an incomplete second
\* step and low confidence got the four warnings in order
C9_Witness ==
  \E c \in OutputCalls :
    resp[c][1].warnings = << Warning(WARN_FIELD_MISSING, "formulas", 0),
                             Warning(WARN_UNIT_MISSING, "", 0),
                             Warning(WARN_STEP_INCOMPLETE, "", 2),
                             Warning(WARN_LOW_CONFIDENCE, "", 0) >>

\* C10: normalizing a text that is exactly the source word of an entry of the
\* unit table or of the typo table yields the replacement the entry declares
C10_EveryEntryTakesEffect ==
  once # None =>
    /\ \A k \in 1..Len(UNIT_MAPPINGS) :
         text = UNIT_MAPPINGS[k][1] => once[1] = UNIT_MAPPINGS[k][2]
    /\ \A k \in 1..Len(TYPO_MAPPINGS) :
         text = TYPO_MAPPINGS[k][1] => once[1] = TYPO_MAPPINGS[k][2]

=============================================================================
